---------------------------- MODULE Spec2Model ----------------------------
(***************************************************************************)
(* A model of the GBC ray tracer: the engine of src/src/raytracer.c (its   *)
(* lookup tables, the per-view precomputation, trace_ray, the tile         *)
(* rasterizer and the scene store) and the program of src/src/main.c that  *)
(* drives it.  Integers are those of the SDCC build: int is 16 bits, >> of *)
(* a signed value is an arithmetic shift, / truncates toward zero.         *)
(***************************************************************************)
EXTENDS Integers, Sequences, FiniteSets, TLC

(***************************************************************************)
(* Fixed-width integer arithmetic                                          *)
(***************************************************************************)

\* (int16_t)v : the low 16 bits of v, read as two's complement.
ToInt16(v) ==
    LET m == v % 65536 IN IF m >= 32768 THEN m - 65536 ELSE m

\* (uint8_t)v : the low 8 bits of v.
ToUint8(v) == v % 256

\* v >> n on a signed value: arithmetic shift, i.e. the floor of v / 2^n.
Shr(v, n) == v \div (2 ^ n)

\* v << n.
Shl(v, n) == v * (2 ^ n)

\* C's a / b: the quotient truncated toward zero (b # 0).
CDiv(a, b) ==
    LET absA == IF a < 0 THEN -a ELSE a
        absB == IF b < 0 THEN -b ELSE b
        q    == absA \div absB
    IN  IF (a < 0) = (b < 0) THEN q ELSE -q

\* v & 1 and v & 2 of a colour index, v & 1 and v & 7 of a coordinate.
BitAnd1(v) == v % 2
BitAnd2(v) == (v \div 2) % 2
BitAnd7(v) == v % 8

(***************************************************************************)
(* Program constants (raytracer.h, raytracer.c)                            *)
(***************************************************************************)

FX8_SHIFT == 8
FX8_ONE == Shl(1, FX8_SHIFT)

RENDER_WIDTH == 96
RENDER_HEIGHT == 96
RENDER_TILES_X == RENDER_WIDTH \div 8
RENDER_TILES_Y == RENDER_HEIGHT \div 8
MAX_RENDER_TILES == RENDER_TILES_X * RENDER_TILES_Y
SCENE_SIZE == MAX_RENDER_TILES * 16
TILE_ROW_BYTES == RENDER_TILES_X * 16

VIEW_FRONT == 0
VIEW_BACK == 1
NUM_VIEWS == 2

SPHERE_CX == 0
SPHERE_CY == 2
SPHERE_CZ == 6
SPHERE_R_SQ == 4
CAM_Y == 2

LIGHT_X == -128
LIGHT_Y == 179
LIGHT_Z == 128

COLOR_SHADOW == 0
COLOR_SPHERE == 1
COLOR_GROUND == 2
COLOR_SKY == 3

LUT_MIN_VAL == 256
LUT_MAX_VAL == 768
LUT_SHIFT == 3
LUT_SIZE == 64

SHADOW_LUT_SIZE == 128
SHADOW_LUT_SHIFT == 3

Cols == 0 .. (RENDER_WIDTH - 1)
Rows == 0 .. (RENDER_HEIGHT - 1)
Views == {VIEW_FRONT, VIEW_BACK}
TileRows == 0 .. (RENDER_TILES_Y - 1)

\* static const uint8_t bayer2x2[2][2], indexed [py & 1][px & 1].
bayer2x2 == << <<0, 128>>, <<192, 64>> >>

(***************************************************************************)
(* State                                                                   *)
(***************************************************************************)

VARIABLES
    \* raytracer.c: the scene store and the row being rasterized
    scene_buffer, tile_row_buffer,
    \* raytracer.c: the view state
    light_dir_x, light_dir_z, shadow_center_x_const, shadow_center_z_const,
    \* raytracer.c: the per-scanline tables
    scanline_dy_fp, scanline_t_ground, scanline_hit_ground,
    scanline_ground_z, scanline_shadow_dz_sq,
    \* raytracer.c: the startup tables
    lut_t_hit, lut_proj_sq, oc_dot_d_constant,
    dx_fp_array, dx_sq_array, dy_fp_array, dy_sq_array, dz_sq_constant,
    shadow_brightness_lut,
    \* main.c: the position in main, render_view's argument and loop
    \* counter, main's current_view and last_keys, wait_for_start's last_keys
    pc, view_id, py_loop, current_view, last_keys, title_keys,
    \* the argument and the result of a function applied on its own
    arg, ret

bufVars == <<scene_buffer, tile_row_buffer>>
viewVars == <<light_dir_x, light_dir_z, shadow_center_x_const,
              shadow_center_z_const>>
scanVars == <<scanline_dy_fp, scanline_t_ground, scanline_hit_ground,
              scanline_ground_z, scanline_shadow_dz_sq>>
lutVars == <<lut_t_hit, lut_proj_sq, oc_dot_d_constant, dx_fp_array,
             dx_sq_array, dy_fp_array, dy_sq_array, dz_sq_constant,
             shadow_brightness_lut>>
engineVars == <<bufVars, viewVars, scanVars, lutVars>>
mainVars == <<pc, view_id, py_loop, current_view, last_keys, title_keys>>
fnVars == <<arg, ret>>
vars == <<engineVars, mainVars, fnVars>>

(***************************************************************************)
(* Dithering                                                               *)
(***************************************************************************)

\* dither() with the indices of the threshold swapped: bayer2x2[px&1][py&1].
dither_swapped(brightness, dark_color, bright_color, px, py) ==
    LET threshold == bayer2x2[BitAnd1(px) + 1][BitAnd1(py) + 1]
    IN  IF brightness > threshold THEN bright_color ELSE dark_color

\* dither(): threshold = bayer2x2[py & 1][px & 1].
dither(brightness, dark_color, bright_color, px, py) ==
    LET threshold == bayer2x2[BitAnd1(py) + 1][BitAnd1(px) + 1]
    IN  IF brightness > threshold THEN bright_color ELSE dark_color

(***************************************************************************)
(* Startup tables: init_luts, init_shadow_lut, init_dx_dy_arrays           *)
(***************************************************************************)

\* init_luts(): oc_dot_d_constant.
init_oc_dot_d ==
    LET oc_z_fp == ToInt16(Shl(SPHERE_CZ, FX8_SHIFT))
        dz_fp   == ToInt16(FX8_ONE)
    IN  ToInt16(Shr(oc_z_fp * dz_fp, FX8_SHIFT))

\* init_luts(): the value of d_dot_d that entry i stands for.
lut_entry_d_dot_d(i) ==
    LUT_MIN_VAL + Shl(i, LUT_SHIFT) + Shl(1, LUT_SHIFT - 1)

\* init_luts(): the two tables, from the constant oc.
init_lut_t_hit(oc) ==
    [i \in 0 .. (LUT_SIZE - 1) |->
        ToInt16(CDiv(Shl(oc, FX8_SHIFT), lut_entry_d_dot_d(i)))]

init_lut_proj_sq(oc) ==
    [i \in 0 .. (LUT_SIZE - 1) |->
        ToInt16(CDiv(oc * oc, lut_entry_d_dot_d(i)))]

\* init_shadow_lut(): the three radii.
shadow_radius_sq == ToInt16(Shl(SPHERE_R_SQ, FX8_SHIFT))
umbra_radius_sq == Shr(shadow_radius_sq, 2)
penumbra_range == ToInt16(shadow_radius_sq - umbra_radius_sq)

\* init_shadow_lut() with the penumbra ramp falling instead of rising.
shadow_lut_entry_falling(i) ==
    LET dist_sq == ToInt16(Shl(i, SHADOW_LUT_SHIFT))
    IN  IF dist_sq >= shadow_radius_sq THEN 255
        ELSE IF dist_sq <= umbra_radius_sq THEN 0
        ELSE ToUint8(CDiv((shadow_radius_sq - dist_sq) * 256, penumbra_range))

\* init_shadow_lut(): the body of the loop, entry i.
shadow_lut_entry(i) ==
    LET dist_sq == ToInt16(Shl(i, SHADOW_LUT_SHIFT))
    IN  IF dist_sq >= shadow_radius_sq THEN 255
        ELSE IF dist_sq <= umbra_radius_sq THEN 0
        ELSE LET dist_in_penumbra == ToInt16(dist_sq - umbra_radius_sq)
             IN  ToUint8(CDiv(dist_in_penumbra * 256, penumbra_range))

init_shadow_lut ==
    [i \in 0 .. (SHADOW_LUT_SIZE - 1) |-> shadow_lut_entry(i)]

\* init_dx_dy_arrays(): dx for column x and dy for row y.
dx_of(x) == ToInt16((x - (RENDER_WIDTH \div 2)) * 5)
dy_of(y) == ToInt16(((RENDER_HEIGHT \div 2) - y) * 5)

init_dx_fp_array == [x \in Cols |-> dx_of(x)]
init_dx_sq_array == [x \in Cols |-> dx_of(x) * dx_of(x)]
init_dy_fp_array == [y \in Rows |-> dy_of(y)]
init_dy_sq_array == [y \in Rows |-> dy_of(y) * dy_of(y)]
init_dz_sq_constant == ToInt16(FX8_ONE) * ToInt16(FX8_ONE)

(***************************************************************************)
(* Per-scanline tables: init_ground_scanlines, init_shadow_scanlines       *)
(***************************************************************************)

\* ground_scanline() without the cutoff t_ground < 2000.
ground_scanline_no_far_cutoff(dy_fp) ==
    LET dz_fp    == ToInt16(FX8_ONE)
        t_ground == ToInt16(CDiv(Shl(-CAM_Y, FX8_SHIFT + FX8_SHIFT), dy_fp))
        miss     == [hit |-> 0, t |-> 0, z |-> 0]
    IN  IF dy_fp < -16 /\ t_ground > 16
        THEN [hit |-> 1, t |-> t_ground,
              z |-> ToInt16(Shr(dz_fp * t_ground, FX8_SHIFT))]
        ELSE miss

\* init_ground_scanlines(): the body of the loop for a row whose dy is
\* dy_fp: the hit flag, t_ground and ground_z written for that row.
ground_scanline(dy_fp) ==
    LET dz_fp    == ToInt16(FX8_ONE)
        t_ground == ToInt16(CDiv(Shl(-CAM_Y, FX8_SHIFT + FX8_SHIFT), dy_fp))
        miss     == [hit |-> 0, t |-> 0, z |-> 0]
    IN  IF dy_fp < -16
        THEN IF t_ground > 16 /\ t_ground < 2000
             THEN [hit |-> 1, t |-> t_ground,
                   z |-> ToInt16(Shr(dz_fp * t_ground, FX8_SHIFT))]
             ELSE miss
        ELSE miss

\* init_ground_scanlines(): the four arrays it writes, from dy_fp_array.
init_ground_scanlines(dy_arr) ==
    [dy  |-> [py \in Rows |-> dy_arr[py]],
     hit |-> [py \in Rows |-> ground_scanline(dy_arr[py]).hit],
     t   |-> [py \in Rows |-> ground_scanline(dy_arr[py]).t],
     z   |-> [py \in Rows |-> ground_scanline(dy_arr[py]).z]]

\* init_shadow_scanlines(): scanline_shadow_dz_sq from the hit flags, the
\* ground_z column and shadow_center_z_const.
init_shadow_scanlines(hit, gz, center_z) ==
    [py \in Rows |->
        IF hit[py] # 0
        THEN LET shadow_dz == gz[py] - center_z
             IN  Shr(shadow_dz * shadow_dz, FX8_SHIFT)
        ELSE 0]

(***************************************************************************)
(* raytracer_set_view: the view state and the per-scanline tables it       *)
(* leaves, as a record; trace_ray reads such a record.                     *)
(***************************************************************************)

\* raytracer_set_view(): light_dir_x for the view (light_dir_z is 1 in both).
view_light_dir_x(v) == IF v = VIEW_FRONT THEN -1 ELSE 1
view_light_dir_z(v) == 1

\* raytracer_set_view(): t_shadow = ((int32_t)SPHERE_CY << 16) / LIGHT_Y.
t_shadow == CDiv(Shl(SPHERE_CY, 16), LIGHT_Y)

\* raytracer_set_view(): the shadow centre for a light direction.
shadow_center_x(ldx) ==
    ToInt16(Shl(SPHERE_CX, FX8_SHIFT)
            + Shr(ToInt16((-ldx) * LIGHT_X) * t_shadow, FX8_SHIFT))
shadow_center_z(ldz) ==
    ToInt16(Shl(SPHERE_CZ, FX8_SHIFT)
            + Shr(ToInt16((-ldz) * LIGHT_Z) * t_shadow, FX8_SHIFT))

\* raytracer_set_view() with the else branch not flipping light_dir_x.
set_view_no_flip(v, dy_arr) ==
    LET g   == init_ground_scanlines(dy_arr)
        scz == shadow_center_z(view_light_dir_z(v))
    IN  [light_dir_x |-> -1,
         light_dir_z |-> view_light_dir_z(v),
         shadow_center_x_const |-> shadow_center_x(-1),
         shadow_center_z_const |-> scz,
         scanline_dy_fp |-> g.dy,
         scanline_hit_ground |-> g.hit,
         scanline_t_ground |-> g.t,
         scanline_ground_z |-> g.z,
         scanline_shadow_dz_sq |-> init_shadow_scanlines(g.hit, g.z, scz)]

\* raytracer_set_view() with the else branch negating the current
\* light_dir_x instead of assigning 1.
set_view_toggle(v, dy_arr) ==
    LET ldx == IF v = VIEW_FRONT THEN -1 ELSE -light_dir_x
        ldz == view_light_dir_z(v)
        g   == init_ground_scanlines(dy_arr)
        scz == shadow_center_z(ldz)
    IN  [light_dir_x |-> ldx,
         light_dir_z |-> ldz,
         shadow_center_x_const |-> shadow_center_x(ldx),
         shadow_center_z_const |-> scz,
         scanline_dy_fp |-> g.dy,
         scanline_hit_ground |-> g.hit,
         scanline_t_ground |-> g.t,
         scanline_ground_z |-> g.z,
         scanline_shadow_dz_sq |-> init_shadow_scanlines(g.hit, g.z, scz)]

\* raytracer_set_view() with the else branch flipping light_dir_z as well.
set_view_flip_z(v, dy_arr) ==
    LET ldx == view_light_dir_x(v)
        ldz == IF v = VIEW_FRONT THEN 1 ELSE -1
        g   == init_ground_scanlines(dy_arr)
        scz == shadow_center_z(ldz)
    IN  [light_dir_x |-> ldx,
         light_dir_z |-> ldz,
         shadow_center_x_const |-> shadow_center_x(ldx),
         shadow_center_z_const |-> scz,
         scanline_dy_fp |-> g.dy,
         scanline_hit_ground |-> g.hit,
         scanline_t_ground |-> g.t,
         scanline_ground_z |-> g.z,
         scanline_shadow_dz_sq |-> init_shadow_scanlines(g.hit, g.z, scz)]

\* raytracer_set_view(v), run with dy_fp_array = dy_arr: every variable it
\* assigns, with the value it leaves there.
set_view(v, dy_arr) ==
    LET ldx == view_light_dir_x(v)
        ldz == view_light_dir_z(v)
        g   == init_ground_scanlines(dy_arr)
        scz == shadow_center_z(ldz)
    IN  [light_dir_x |-> ldx,
         light_dir_z |-> ldz,
         shadow_center_x_const |-> shadow_center_x(ldx),
         shadow_center_z_const |-> scz,
         scanline_dy_fp |-> g.dy,
         scanline_hit_ground |-> g.hit,
         scanline_t_ground |-> g.t,
         scanline_ground_z |-> g.z,
         scanline_shadow_dz_sq |-> init_shadow_scanlines(g.hit, g.z, scz)]

\* The view state and per-scanline tables as they are now.
cur_view ==
    [light_dir_x |-> light_dir_x,
     light_dir_z |-> light_dir_z,
     shadow_center_x_const |-> shadow_center_x_const,
     shadow_center_z_const |-> shadow_center_z_const,
     scanline_dy_fp |-> scanline_dy_fp,
     scanline_hit_ground |-> scanline_hit_ground,
     scanline_t_ground |-> scanline_t_ground,
     scanline_ground_z |-> scanline_ground_z,
     scanline_shadow_dz_sq |-> scanline_shadow_dz_sq]

(***************************************************************************)
(* trace_ray                                                               *)
(***************************************************************************)

\* trace_ray(): d_dot_d of the ray through (px, py), before clamping.
ray_d_dot_d(px, py) ==
    ToInt16(Shr(dx_sq_array[px] + dy_sq_array[py] + dz_sq_constant,
                FX8_SHIFT))

\* clamp_d_dot_d() without the clamp to LUT_MIN_VAL.
clamp_d_dot_d_no_min(d) == IF d > LUT_MAX_VAL THEN LUT_MAX_VAL ELSE d

\* trace_ray(): the two clamps of d_dot_d.
clamp_d_dot_d(d) ==
    LET lo == IF d < LUT_MIN_VAL THEN LUT_MIN_VAL ELSE d
    IN  IF lo > LUT_MAX_VAL THEN LUT_MAX_VAL ELSE lo

\* trace_ray(): lut_index from d_dot_d.
lut_index_of(d) ==
    LET idx == ToUint8(Shr(clamp_d_dot_d(d) - LUT_MIN_VAL, LUT_SHIFT))
    IN  IF idx >= LUT_SIZE THEN LUT_SIZE - 1 ELSE idx

\* trace_ray(): the pair read from the two tables for d_dot_d.
sphere_lookup(d) ==
    [t_hit   |-> lut_t_hit[lut_index_of(d)],
     proj_sq |-> lut_proj_sq[lut_index_of(d)]]

\* trace_ray(): the sphere intersection test.
hit_sphere_of(proj_sq) ==
    LET oc_sq        == SPHERE_CZ * SPHERE_CZ
        dist_sq_fp   == Shl(oc_sq, FX8_SHIFT) - proj_sq
        radius_sq_fp == Shl(SPHERE_R_SQ, FX8_SHIFT)
    IN  IF dist_sq_fp < radius_sq_fp /\ oc_dot_d_constant > 0 THEN 1 ELSE 0

\* trace_ray() deciding the surface with the comparison reversed.
sphere_wins_reversed(hit_sphere, hit_ground, t_hit, t_ground) ==
    hit_sphere # 0 /\ (hit_ground = 0 \/ t_hit > t_ground)

\* trace_ray(): the condition of the sphere branch.
sphere_wins(hit_sphere, hit_ground, t_hit, t_ground) ==
    hit_sphere # 0 /\ (hit_ground = 0 \/ t_hit < t_ground)

\* trace_ray(): the Lambert term dot (int32_t) of the sphere at (px, py).
sphere_dot(V, px, py, t_hit) ==
    LET dx_fp == dx_fp_array[px]
        dy_fp == dy_fp_array[py]
        dz_fp == ToInt16(FX8_ONE)
        hx == ToInt16(Shr(dx_fp * t_hit, FX8_SHIFT))
        hy == ToInt16(Shl(CAM_Y, FX8_SHIFT)
                      + ToInt16(Shr(dy_fp * t_hit, FX8_SHIFT)))
        hz == ToInt16(Shr(dz_fp * t_hit, FX8_SHIFT))
        nx == Shr(hx, 1)
        ny == Shr(ToInt16(hy - Shl(SPHERE_CY, FX8_SHIFT)), 1)
        nz == Shr(ToInt16(hz - Shl(SPHERE_CZ, FX8_SHIFT)), 1)
        lx == ToInt16(V.light_dir_x * LIGHT_X)
        ly == LIGHT_Y
        lz == ToInt16(V.light_dir_z * LIGHT_Z)
    IN  Shr(nx * lx + ny * ly + nz * lz, FX8_SHIFT)

\* sphere_lit_wide() adding the diffuse term whatever the sign of dot.
sphere_lit_wide_no_guard(dot) == 50 + Shr(dot * 205, 8)

\* trace_ray(): the value of 50 + ((dot * 205) >> 8) (or the ambient 50)
\* as computed in 32 bits, before it is assigned to the int16_t brightness.
sphere_lit_wide(dot) == IF dot > 0 THEN 50 + Shr(dot * 205, 8) ELSE 50

\* trace_ray(): the brightness of the sphere at (px, py), as int16_t after
\* the clamp to 255.
sphere_brightness(V, px, py, t_hit) ==
    LET lit == ToInt16(sphere_lit_wide(sphere_dot(V, px, py, t_hit)))
    IN  IF lit > 255 THEN 255 ELSE lit

\* trace_ray(): shadow_dist_sq of the ground point seen at (px, py).
shadow_dist_sq_of(V, px, py) ==
    LET ground_x == ToInt16(Shr(dx_fp_array[px] * V.scanline_t_ground[py],
                                FX8_SHIFT))
        shadow_dx == ground_x - V.shadow_center_x_const
        shadow_dx_sq == Shr(shadow_dx * shadow_dx, FX8_SHIFT)
    IN  shadow_dx_sq + V.scanline_shadow_dz_sq[py]

\* shadow_lut_idx() without the clamp to SHADOW_LUT_SIZE - 1.
shadow_lut_idx_no_max(shadow_dist_sq) ==
    IF shadow_dist_sq <= 0 THEN 0
    ELSE ToUint8(Shr(shadow_dist_sq, SHADOW_LUT_SHIFT))

\* trace_ray(): the clamped index into shadow_brightness_lut.
shadow_lut_idx(shadow_dist_sq) ==
    LET max_lut_value == ToInt16(Shl(SHADOW_LUT_SIZE - 1, SHADOW_LUT_SHIFT))
    IN  IF shadow_dist_sq >= max_lut_value THEN SHADOW_LUT_SIZE - 1
        ELSE IF shadow_dist_sq <= 0 THEN 0
        ELSE ToUint8(Shr(shadow_dist_sq, SHADOW_LUT_SHIFT))

\* trace_ray(): the brightness of the ground for shadow_dist_sq.
ground_brightness(shadow_dist_sq) ==
    shadow_brightness_lut[shadow_lut_idx(shadow_dist_sq)]

\* trace_ray(): hit_sphere, and t_hit, of the pixel (px, py).
pixel_t_hit(px, py) == sphere_lookup(ray_d_dot_d(px, py)).t_hit
pixel_hit_sphere(px, py) ==
    hit_sphere_of(sphere_lookup(ray_d_dot_d(px, py)).proj_sq)

\* TraceRay() shading the ground without testing hit_ground.
TraceRay_no_ground_test(V, px, py) ==
    LET t_hit      == pixel_t_hit(px, py)
        hit_sphere == pixel_hit_sphere(px, py)
        hit_ground == V.scanline_hit_ground[py]
        t_ground   == V.scanline_t_ground[py]
    IN  IF sphere_wins(hit_sphere, hit_ground, t_hit, t_ground)
        THEN dither(ToUint8(sphere_brightness(V, px, py, t_hit)),
                    COLOR_SHADOW, COLOR_SPHERE, px, py)
        ELSE dither(ground_brightness(shadow_dist_sq_of(V, px, py)),
                    COLOR_SHADOW, COLOR_GROUND, px, py)

\* trace_ray(px, py) under the view state V.
TraceRay(V, px, py) ==
    LET t_hit      == pixel_t_hit(px, py)
        hit_sphere == pixel_hit_sphere(px, py)
        hit_ground == V.scanline_hit_ground[py]
        t_ground   == V.scanline_t_ground[py]
    IN  IF sphere_wins(hit_sphere, hit_ground, t_hit, t_ground)
        THEN dither(ToUint8(sphere_brightness(V, px, py, t_hit)),
                    COLOR_SHADOW, COLOR_SPHERE, px, py)
        ELSE IF hit_ground # 0
        THEN dither(ground_brightness(shadow_dist_sq_of(V, px, py)),
                    COLOR_SHADOW, COLOR_GROUND, px, py)
        ELSE COLOR_SKY

\* trace_ray(): which of its three return statements is reached for (px, py).
branch_of(V, px, py) ==
    LET hit_ground == V.scanline_hit_ground[py]
    IN  IF sphere_wins(pixel_hit_sphere(px, py), hit_ground,
                       pixel_t_hit(px, py), V.scanline_t_ground[py])
        THEN "sphere"
        ELSE IF hit_ground # 0 THEN "ground" ELSE "sky"

\* trace_ray(px, py) as the program calls it: under the current view state.
trace_ray(px, py) == TraceRay(cur_view, px, py)

(***************************************************************************)
(* Tile rasterizer and scene store                                         *)
(***************************************************************************)

RECURSIVE pack_plane(_, _, _)
\* raytracer_render_row(): the inner loop, from column col on, for one bit
\* plane (0: color & 0x01 into low_bits, 1: color & 0x02 into high_bits) of
\* the eight colours c[0..7]; the bits set are distinct, so | is +.
pack_plane(c, plane, col) ==
    IF col = 8 THEN 0
    ELSE LET bit_pos == 7 - col
             set == IF plane = 0 THEN BitAnd1(c[col]) # 0
                    ELSE BitAnd2(c[col]) # 0
         IN  (IF set THEN Shl(1, bit_pos) ELSE 0)
             + pack_plane(c, plane, col + 1)

\* tile_byte() writing both planes from bit 0 of the colour.
tile_byte_one_plane(c, plane) == ToUint8(pack_plane(c, 0, 0))

\* raytracer_render_row(): low_bits (plane 0) or high_bits (plane 1) of one
\* row of a tile.
tile_byte(c, plane) == ToUint8(pack_plane(c, plane, 0))

\* raytracer_render_row(): the 16 bytes tile_data[0..15] of one tile from
\* its 8x8 colours block[row][col].
tile_data(block) ==
    [k \in 0 .. 15 |-> tile_byte(block[k \div 2], k % 2)]

\* raytracer_render_row(tile_row) under the view state V: the colours of
\* row `row` of tile tx, and the whole of tile_row_buffer afterwards.
traced_row(V, tx, py) == [col \in 0 .. 7 |-> TraceRay(V, tx * 8 + col, py)]

render_row(V, tile_row) ==
    [k \in 0 .. (TILE_ROW_BYTES - 1) |->
        LET tx  == k \div 16
            row == (k % 16) \div 2
            py  == ToUint8(tile_row * 8) + row
        IN  tile_byte(traced_row(V, tx, py), k % 2)]

\* raytracer_render_row(tile_row): the pixels (px, py) it passes to trace_ray
\* (uint8_t arguments), and the offsets of tile_row_buffer it writes.
render_row_pixels(tile_row) ==
    LET base_py == ToUint8(tile_row * 8)
    IN  {<<ToUint8(ToUint8(tx * 8) + col), ToUint8(base_py + row)>> :
            tx \in 0 .. (RENDER_TILES_X - 1), row \in 0 .. 7, col \in 0 .. 7}
render_row_offsets(tile_row) ==
    {tx * 16 + row * 2 + b :
        tx \in 0 .. (RENDER_TILES_X - 1), row \in 0 .. 7, b \in 0 .. 1}

\* raytracer_render_scanline(py): the scanline-granular rasterizer main.c
\* calls.  It rasterizes row py & 7 of each of the twelve tiles of the
\* tile row py / 8 into tile_row_buffer, leaving the other rows of the
\* buffer as they are.
render_scanline(V, buf, py) ==
    [k \in 0 .. (TILE_ROW_BYTES - 1) |->
        IF (k % 16) \div 2 = BitAnd7(py)
        THEN tile_byte(traced_row(V, k \div 16, py), k % 2)
        ELSE buf[k]]

\* store_row() with the destination offset tile_row * 16.
store_row_tile_base(store, v, tile_row, buf) ==
    LET base == tile_row * 16
    IN  [store EXCEPT ![v] =
            [k \in 0 .. (SCENE_SIZE - 1) |->
                IF k >= base /\ k < base + TILE_ROW_BYTES
                THEN buf[k - base] ELSE @[k]]]

\* raytracer_store_row(view_id, tile_row): the memcpy into scene_buffer.
store_row(store, v, tile_row, buf) ==
    LET base == tile_row * RENDER_TILES_X * 16
    IN  [store EXCEPT ![v] =
            [k \in 0 .. (SCENE_SIZE - 1) |->
                IF k >= base /\ k < base + TILE_ROW_BYTES
                THEN buf[k - base] ELSE @[k]]]

(***************************************************************************)
(* The engine's operations as actions                                      *)
(***************************************************************************)

\* raytracer_init(): init_luts, init_shadow_lut, init_dx_dy_arrays and
\* init_ground_scanlines.
raytracer_init ==
    /\ oc_dot_d_constant' = init_oc_dot_d
    /\ lut_t_hit' = init_lut_t_hit(init_oc_dot_d)
    /\ lut_proj_sq' = init_lut_proj_sq(init_oc_dot_d)
    /\ shadow_brightness_lut' = init_shadow_lut
    /\ dx_fp_array' = init_dx_fp_array
    /\ dx_sq_array' = init_dx_sq_array
    /\ dy_fp_array' = init_dy_fp_array
    /\ dy_sq_array' = init_dy_sq_array
    /\ dz_sq_constant' = init_dz_sq_constant
    /\ LET g == init_ground_scanlines(init_dy_fp_array)
       IN  /\ scanline_dy_fp' = g.dy
           /\ scanline_hit_ground' = g.hit
           /\ scanline_t_ground' = g.t
           /\ scanline_ground_z' = g.z
    /\ UNCHANGED <<scanline_shadow_dz_sq, viewVars, bufVars>>

\* raytracer_set_view(v).
raytracer_set_view(v) ==
    /\ LET r == set_view(v, dy_fp_array)
       IN  /\ light_dir_x' = r.light_dir_x
           /\ light_dir_z' = r.light_dir_z
           /\ shadow_center_x_const' = r.shadow_center_x_const
           /\ shadow_center_z_const' = r.shadow_center_z_const
           /\ scanline_dy_fp' = r.scanline_dy_fp
           /\ scanline_hit_ground' = r.scanline_hit_ground
           /\ scanline_t_ground' = r.scanline_t_ground
           /\ scanline_ground_z' = r.scanline_ground_z
           /\ scanline_shadow_dz_sq' = r.scanline_shadow_dz_sq
    /\ UNCHANGED <<lutVars, bufVars>>

\* raytracer_render_row(tile_row).
raytracer_render_row(tile_row) ==
    /\ tile_row_buffer' = render_row(cur_view, tile_row)
    /\ UNCHANGED <<scene_buffer, viewVars, scanVars, lutVars>>

\* raytracer_store_row(v, tile_row).
raytracer_store_row(v, tile_row) ==
    /\ scene_buffer' = store_row(scene_buffer, v, tile_row, tile_row_buffer)
    /\ UNCHANGED <<tile_row_buffer, viewVars, scanVars, lutVars>>

\* raytracer_load_scene(v): scene_buffer[v] is handed to set_bkg_data; the
\* engine's state is only read.
raytracer_load_scene(v) ==
    /\ v \in DOMAIN scene_buffer
    /\ UNCHANGED engineVars

(***************************************************************************)
(* The program: main.c                                                     *)
(***************************************************************************)

\* The buttons main.c reads; joypad() returns a set of them.
Buttons == {"J_START", "J_A", "J_UP", "J_DOWN"}
Joypad == SUBSET Buttons

NoArg == [fn |-> "none"]
NoRet == [done |-> FALSE]

\* The static storage of raytracer.c before any call: zeroed arrays, and the
\* two initialised light signs.
EngineStatic ==
    /\ scene_buffer = [v \in Views |-> [k \in 0 .. (SCENE_SIZE - 1) |-> 0]]
    /\ tile_row_buffer = [k \in 0 .. (TILE_ROW_BYTES - 1) |-> 0]
    /\ light_dir_x = -1
    /\ light_dir_z = 1
    /\ shadow_center_x_const = 0
    /\ shadow_center_z_const = 0
    /\ scanline_dy_fp = [y \in Rows |-> 0]
    /\ scanline_t_ground = [y \in Rows |-> 0]
    /\ scanline_hit_ground = [y \in Rows |-> 0]
    /\ scanline_ground_z = [y \in Rows |-> 0]
    /\ scanline_shadow_dz_sq = [y \in Rows |-> 0]
    /\ lut_t_hit = [i \in 0 .. (LUT_SIZE - 1) |-> 0]
    /\ lut_proj_sq = [i \in 0 .. (LUT_SIZE - 1) |-> 0]
    /\ oc_dot_d_constant = 0
    /\ dx_fp_array = [x \in Cols |-> 0]
    /\ dx_sq_array = [x \in Cols |-> 0]
    /\ dy_fp_array = [y \in Rows |-> 0]
    /\ dy_sq_array = [y \in Rows |-> 0]
    /\ dz_sq_constant = 0
    /\ shadow_brightness_lut = [i \in 0 .. (SHADOW_LUT_SIZE - 1) |-> 0]

\* main() entered: current_view = VIEW_FRONT, last_keys = 0.
Init ==
    /\ EngineStatic
    /\ pc = "title"
    /\ view_id = VIEW_FRONT
    /\ py_loop = 0
    /\ current_view = VIEW_FRONT
    /\ last_keys = {}
    /\ title_keys = {}
    /\ arg = NoArg
    /\ ret = NoRet

\* main(): show_title_screen(), and wait_for_start() reading joypad() once
\* before its loop.
ShowTitle ==
    /\ pc = "title"
    /\ \E keys \in Joypad : title_keys' = keys
    /\ pc' = "wait_start"
    /\ UNCHANGED <<engineVars, view_id, py_loop, current_view, last_keys,
                   fnVars>>

\* wait_for_start(): one turn of its loop; on START or A it returns, and its
\* local last_keys is gone.
WaitForStart ==
    /\ pc = "wait_start"
    /\ \E keys \in Joypad :
          LET pressed == keys \ title_keys
          IN  IF pressed \cap {"J_START", "J_A"} # {}
              THEN /\ pc' = "init"
                   /\ title_keys' = {}
              ELSE /\ pc' = "wait_start"
                   /\ title_keys' = keys
    /\ UNCHANGED <<engineVars, view_id, py_loop, current_view, last_keys,
                   fnVars>>

\* MainInit calling render_view(VIEW_BACK) first.
MainInit_back_first ==
    /\ pc = "init"
    /\ raytracer_init
    /\ view_id' = VIEW_BACK
    /\ pc' = "render_view"
    /\ UNCHANGED <<py_loop, current_view, last_keys, title_keys, fnVars>>

\* main(): the transition to the ray tracer, ending in raytracer_init(),
\* and the call render_view(VIEW_FRONT).
MainInit ==
    /\ pc = "init"
    /\ raytracer_init
    /\ view_id' = VIEW_FRONT
    /\ pc' = "render_view"
    /\ UNCHANGED <<py_loop, current_view, last_keys, title_keys, fnVars>>

\* render_view(view_id): raytracer_set_view(view_id), and py = 0.
RenderViewBegin ==
    /\ pc = "render_view"
    /\ raytracer_set_view(view_id)
    /\ py_loop' = 0
    /\ pc' = "scanline"
    /\ UNCHANGED <<view_id, current_view, last_keys, title_keys, fnVars>>

\* render_view(): one turn of its loop: render the scanline, and store the
\* tile row when the scanline completes it.
RenderScanline ==
    /\ pc = "scanline"
    /\ py_loop < RENDER_HEIGHT
    /\ LET buf == render_scanline(cur_view, tile_row_buffer, py_loop)
       IN  /\ tile_row_buffer' = buf
           /\ scene_buffer' =
                 IF BitAnd7(py_loop) = 7
                 THEN store_row(scene_buffer, view_id, py_loop \div 8, buf)
                 ELSE scene_buffer
    /\ py_loop' = py_loop + 1
    /\ UNCHANGED <<viewVars, scanVars, lutVars, pc, view_id, current_view,
                   last_keys, title_keys, fnVars>>

\* RenderViewEnd going on to load the front view after VIEW_FRONT, without
\* render_view(VIEW_BACK).
RenderViewEnd_skip_back ==
    /\ pc = "scanline"
    /\ py_loop = RENDER_HEIGHT
    /\ view_id' = view_id
    /\ pc' = "load_front"
    /\ UNCHANGED <<engineVars, py_loop, current_view, last_keys, title_keys,
                   fnVars>>

\* render_view() returns: after VIEW_FRONT main calls render_view(VIEW_BACK),
\* after VIEW_BACK it goes on to load the front view.
RenderViewEnd ==
    /\ pc = "scanline"
    /\ py_loop = RENDER_HEIGHT
    /\ IF view_id = VIEW_FRONT
       THEN /\ view_id' = VIEW_BACK
            /\ pc' = "render_view"
       ELSE /\ view_id' = view_id
            /\ pc' = "load_front"
    /\ UNCHANGED <<engineVars, py_loop, current_view, last_keys, title_keys,
                   fnVars>>

\* main(): current_view = VIEW_FRONT; raytracer_load_scene(current_view).
LoadFront ==
    /\ pc = "load_front"
    /\ current_view' = VIEW_FRONT
    /\ raytracer_load_scene(VIEW_FRONT)
    /\ pc' = "main_loop"
    /\ UNCHANGED <<view_id, py_loop, last_keys, title_keys, fnVars>>

\* MainLoop calling raytracer_set_view(new_view) on a view change.
MainLoop_set_view ==
    /\ pc = "main_loop"
    /\ \E keys \in Joypad :
          LET pressed == keys \ last_keys
              down_view == IF "J_DOWN" \in pressed THEN VIEW_FRONT
                           ELSE current_view
              new_view == IF "J_UP" \in pressed THEN VIEW_BACK ELSE down_view
          IN  /\ last_keys' = keys
              /\ current_view' = new_view
              /\ IF new_view # current_view
                 THEN raytracer_set_view(new_view)
                 ELSE UNCHANGED engineVars
    /\ UNCHANGED <<pc, view_id, py_loop, title_keys, fnVars>>

\* main(): one turn of the main loop.
MainLoop ==
    /\ pc = "main_loop"
    /\ \E keys \in Joypad :
          LET pressed == keys \ last_keys
              down_view == IF "J_DOWN" \in pressed THEN VIEW_FRONT
                           ELSE current_view
              new_view == IF "J_UP" \in pressed THEN VIEW_BACK ELSE down_view
          IN  /\ last_keys' = keys
              /\ current_view' = new_view
              /\ new_view # current_view => raytracer_load_scene(new_view)
    /\ UNCHANGED <<engineVars, pc, view_id, py_loop, title_keys, fnVars>>

Next ==
    \/ ShowTitle
    \/ WaitForStart
    \/ MainInit
    \/ RenderViewBegin
    \/ RenderScanline
    \/ RenderViewEnd
    \/ LoadFront
    \/ MainLoop

Spec == Init /\ [][Next]_vars

(***************************************************************************)
(* Functions of the engine applied on their own: the argument is drawn in  *)
(* the initial state, raytracer_init() builds the tables where the         *)
(* function reads them, and one action applies the function.               *)
(***************************************************************************)

\* Bounds of the arguments drawn.
MaxShadowDist == 1100
LutMargin == 300
MaxDitherCoord == 3
MaxPriorCalls == 4

\* main.c is not running: only the function's own variables move.
FnIdle ==
    /\ view_id = VIEW_FRONT
    /\ py_loop = 0
    /\ current_view = VIEW_FRONT
    /\ last_keys = {}
    /\ title_keys = {}
    /\ ret = NoRet

\* raytracer_init() before the function is applied.
FnEngineInit ==
    /\ pc = "fn"
    /\ raytracer_init
    /\ pc' = "fn_ready"
    /\ UNCHANGED <<view_id, py_loop, current_view, last_keys, title_keys,
                   fnVars>>

\* --- dither(brightness, dark, bright, px, py)

DitherArgs ==
    {[fn |-> "dither", brightness |-> b, dark |-> COLOR_SHADOW,
      bright |-> c, px |-> x, py |-> y] :
        b \in 0 .. 255, c \in {COLOR_SPHERE, COLOR_GROUND},
        x \in 0 .. MaxDitherCoord, y \in 0 .. MaxDitherCoord}

InitDither ==
    /\ EngineStatic
    /\ FnIdle
    /\ pc = "fn_ready"
    /\ arg \in DitherArgs

ApplyDither ==
    /\ pc = "fn_ready"
    /\ arg.fn = "dither"
    /\ ret' = [done |-> TRUE,
               val |-> dither(arg.brightness, arg.dark, arg.bright,
                              arg.px, arg.py)]
    /\ pc' = "fn_done"
    /\ UNCHANGED <<engineVars, view_id, py_loop, current_view, last_keys,
                   title_keys, arg>>

SpecDither == InitDither /\ [][ApplyDither]_vars

\* --- the sphere lookup of trace_ray for a value of d_dot_d

LutArgs ==
    {[fn |-> "sphere_lookup", d_dot_d |-> d] :
        d \in (LUT_MIN_VAL - LutMargin) .. (LUT_MAX_VAL + LutMargin)}

InitLut ==
    /\ EngineStatic
    /\ FnIdle
    /\ pc = "fn"
    /\ arg \in LutArgs

ApplyLut ==
    /\ pc = "fn_ready"
    /\ arg.fn = "sphere_lookup"
    /\ ret' = [done |-> TRUE, val |-> sphere_lookup(arg.d_dot_d)]
    /\ pc' = "fn_done"
    /\ UNCHANGED <<engineVars, view_id, py_loop, current_view, last_keys,
                   title_keys, arg>>

NextLut == FnEngineInit \/ ApplyLut

SpecLut == InitLut /\ [][NextLut]_vars

\* --- the ground brightness of trace_ray for a value of shadow_dist_sq

ShadowArgs ==
    {[fn |-> "ground_brightness", shadow_dist_sq |-> s] :
        s \in 0 .. MaxShadowDist}

InitShadow ==
    /\ EngineStatic
    /\ FnIdle
    /\ pc = "fn"
    /\ arg \in ShadowArgs

ApplyShadow ==
    /\ pc = "fn_ready"
    /\ arg.fn = "ground_brightness"
    /\ ret' = [done |-> TRUE, val |-> ground_brightness(arg.shadow_dist_sq)]
    /\ pc' = "fn_done"
    /\ UNCHANGED <<engineVars, view_id, py_loop, current_view, last_keys,
                   title_keys, arg>>

NextShadow == FnEngineInit \/ ApplyShadow

SpecShadow == InitShadow /\ [][NextShadow]_vars

\* --- the 16 bytes of a tile from its 8x8 colours

\* The blocks drawn: from every pattern p of eight colours, the block whose
\* row r is p rotated by r columns with r added to each colour (mod 4), so
\* that every pattern of eight colours occurs in every row of some block.
PackPatterns == [0 .. 7 -> 0 .. 3]
block_of(p) ==
    [row \in 0 .. 7 |-> [col \in 0 .. 7 |-> (p[(col + row) % 8] + row) % 4]]

InitPack ==
    /\ EngineStatic
    /\ FnIdle
    /\ pc = "fn_ready"
    /\ \E p \in PackPatterns : arg = [fn |-> "tile_data", block |-> block_of(p)]

ApplyPack ==
    /\ pc = "fn_ready"
    /\ arg.fn = "tile_data"
    /\ ret' = [done |-> TRUE, val |-> tile_data(arg.block)]
    /\ pc' = "fn_done"
    /\ UNCHANGED <<engineVars, view_id, py_loop, current_view, last_keys,
                   title_keys, arg>>

SpecPack == InitPack /\ [][ApplyPack]_vars

\* --- raytracer_set_view(v) called twice in a row, after the calls of
\* `prior`

PriorSeqs == UNION {[1 .. n -> Views] : n \in 0 .. MaxPriorCalls}

InitSetView ==
    /\ EngineStatic
    /\ FnIdle
    /\ pc = "fn"
    /\ \E s \in PriorSeqs, v \in Views :
          arg = [fn |-> "set_view", prior |-> s, v |-> v]

PriorSetView ==
    /\ pc = "fn_ready"
    /\ arg.fn = "set_view"
    /\ arg.prior # << >>
    /\ raytracer_set_view(Head(arg.prior))
    /\ arg' = [arg EXCEPT !.prior = Tail(@)]
    /\ UNCHANGED <<mainVars, ret>>

\* The first of the two calls; ret keeps what it left.
ApplySetView ==
    /\ pc = "fn_ready"
    /\ arg.fn = "set_view"
    /\ arg.prior = << >>
    /\ raytracer_set_view(arg.v)
    /\ ret' = [done |-> TRUE, val |-> cur_view']
    /\ pc' = "fn_done"
    /\ UNCHANGED <<view_id, py_loop, current_view, last_keys, title_keys,
                   arg>>

\* The second call.
ApplySetViewAgain ==
    /\ pc = "fn_done"
    /\ arg.fn = "set_view"
    /\ raytracer_set_view(arg.v)
    /\ pc' = "fn_again"
    /\ UNCHANGED <<view_id, py_loop, current_view, last_keys, title_keys,
                   fnVars>>

NextSetView ==
    \/ FnEngineInit
    \/ PriorSetView
    \/ ApplySetView
    \/ ApplySetViewAgain

SpecSetView == InitSetView /\ [][NextSetView]_vars

(***************************************************************************)
(* Properties                                                              *)
(***************************************************************************)

\* render_view() is about to trace the scanline py_loop: the tables of
\* view_id are set.
TracingRow == pc = "scanline" /\ py_loop < RENDER_HEIGHT

\* trace_ray(px, py) shades the ground: the sphere branch is not taken and
\* the row hits the ground.
GroundShaded(px, py) ==
    /\ scanline_hit_ground[py] # 0
    /\ ~sphere_wins(pixel_hit_sphere(px, py), scanline_hit_ground[py],
                    pixel_t_hit(px, py), scanline_t_ground[py])

\* C1: on every scanline main renders, in both views, a ground pixel whose
\* shadow_dist_sq is at least shadow_radius_sq (1024) reads a ground
\* brightness of exactly 255.
C1_FarGroundIs255 ==
    TracingRow =>
        \A px \in Cols :
            (/\ GroundShaded(px, py_loop)
             /\ shadow_dist_sq_of(cur_view, px, py_loop) >= 1024)
            => ground_brightness(shadow_dist_sq_of(cur_view, px, py_loop))
                   = 255

\* C2: the ground brightness read for shadow_dist_sq = s is at most the one
\* read for every larger distance up to the bound (beyond the last table
\* entry the index is clamped, so the value no longer changes), and it is 0
\* when s <= 256.
C2_ShadowMonotone ==
    (ret.done /\ arg.fn = "ground_brightness") =>
        /\ \A t \in arg.shadow_dist_sq .. (MaxShadowDist + 1) :
              ret.val <= ground_brightness(t)
        /\ arg.shadow_dist_sq <= 256 => ret.val = 0
        /\ arg.shadow_dist_sq >= Shl(SHADOW_LUT_SIZE - 1, SHADOW_LUT_SHIFT)
              => ret.val = shadow_brightness_lut[SHADOW_LUT_SIZE - 1]

\* C2 witness: the brightness was read at the umbra threshold and is 0,
\* while a distance in the penumbra reads more.
C2_Witness ==
    /\ ret.done
    /\ arg.fn = "ground_brightness"
    /\ arg.shadow_dist_sq = 256
    /\ ret.val = 0
    /\ ground_brightness(640) > 0

\* C3: on every scanline main renders, a pixel with hit_sphere and
\* hit_ground both set is shaded by the nearer surface: dithered between
\* COLOR_SHADOW and COLOR_SPHERE with the sphere's brightness when
\* t_hit < t_ground, and between COLOR_SHADOW and COLOR_GROUND with the
\* ground's brightness otherwise (a tie goes to the ground).
C3_NearerSurfaceWins ==
    TracingRow =>
        \A px \in Cols :
            LET t_hit    == pixel_t_hit(px, py_loop)
                t_ground == scanline_t_ground[py_loop]
                color    == trace_ray(px, py_loop)
            IN  (pixel_hit_sphere(px, py_loop) # 0
                 /\ scanline_hit_ground[py_loop] # 0)
                => IF t_hit < t_ground
                   THEN /\ color \in {COLOR_SHADOW, COLOR_SPHERE}
                        /\ color = dither(
                               ToUint8(sphere_brightness(cur_view, px,
                                                         py_loop, t_hit)),
                               COLOR_SHADOW, COLOR_SPHERE, px, py_loop)
                   ELSE /\ color \in {COLOR_SHADOW, COLOR_GROUND}
                        /\ color = dither(
                               ground_brightness(
                                   shadow_dist_sq_of(cur_view, px, py_loop)),
                               COLOR_SHADOW, COLOR_GROUND, px, py_loop)

\* C3 witness: a scanline with a pixel where both are hit, the sphere is
\* nearer and the pixel is COLOR_SPHERE.
C3_Witness ==
    /\ TracingRow
    /\ \E px \in Cols :
          /\ pixel_hit_sphere(px, py_loop) # 0
          /\ scanline_hit_ground[py_loop] # 0
          /\ pixel_t_hit(px, py_loop) < scanline_t_ground[py_loop]
          /\ trace_ray(px, py_loop) = COLOR_SPHERE

\* C4: on every scanline main renders, trace_ray returns COLOR_SKY exactly
\* for the pixels with neither hit_sphere nor hit_ground.
C4_SkyIffNoHit ==
    TracingRow =>
        \A px \in Cols :
            trace_ray(px, py_loop) = COLOR_SKY
            <=> (pixel_hit_sphere(px, py_loop) = 0
                 /\ scanline_hit_ground[py_loop] = 0)

\* C4 witness: a scanline with a sky pixel and a sphere pixel.
C4_Witness ==
    /\ TracingRow
    /\ \E px \in Cols : trace_ray(px, py_loop) = COLOR_SKY
    /\ \E px \in Cols :
          /\ pixel_hit_sphere(px, py_loop) # 0
          /\ trace_ray(px, py_loop) = COLOR_SPHERE

\* C5: the pair looked up for d_dot_d < 256 is the pair looked up for 256
\* (entry 0 of the tables), and the pair looked up for d_dot_d > 768 is the
\* pair looked up for 768 (entry 63).
C5_LookupClampInvariant ==
    (ret.done /\ arg.fn = "sphere_lookup") =>
        /\ arg.d_dot_d < 256 =>
              /\ ret.val = sphere_lookup(256)
              /\ ret.val = [t_hit |-> lut_t_hit[0],
                            proj_sq |-> lut_proj_sq[0]]
        /\ arg.d_dot_d > 768 =>
              /\ ret.val = sphere_lookup(768)
              /\ ret.val = [t_hit |-> lut_t_hit[63],
                            proj_sq |-> lut_proj_sq[63]]

\* C5 witness: a lookup below 256 and its result, which is not the result
\* of a lookup above 768.
C5_Witness ==
    /\ ret.done
    /\ arg.fn = "sphere_lookup"
    /\ arg.d_dot_d = 100
    /\ ret.val.t_hit = 1512
    /\ sphere_lookup(900) # ret.val

\* C6: dither returns bright exactly when brightness exceeds the threshold
\* of the matrix {{0,128},{192,64}} at [py mod 2][px mod 2], else dark; the
\* result is that of the pixel (px mod 2, py mod 2); and brightness 100 is
\* bright at parity (0,0) and (1,1), dark at (0,1) and (1,0).
C6_DitherByParity ==
    (ret.done /\ arg.fn = "dither") =>
        LET x == arg.px % 2
            y == arg.py % 2
            threshold == IF y = 0 THEN (IF x = 0 THEN 0 ELSE 128)
                         ELSE (IF x = 0 THEN 192 ELSE 64)
        IN  /\ ret.val = IF arg.brightness > threshold
                         THEN arg.bright ELSE arg.dark
            /\ ret.val = dither(arg.brightness, arg.dark, arg.bright, x, y)
            /\ arg.brightness = 100 =>
                  ret.val = IF x = y THEN arg.bright ELSE arg.dark

\* C6 witness: brightness 100 at a pixel of parity (0,1) beyond the first
\* 2x2 cell, dithered to dark.
C6_Witness ==
    /\ ret.done
    /\ arg.fn = "dither"
    /\ arg.brightness = 100
    /\ arg.px = 2
    /\ arg.py = 3
    /\ ret.val = arg.dark

(***************************************************************************)
(* The engine's operations called in any order after raytracer_init        *)
(***************************************************************************)

\* The number of calls in a sequence.
MaxEngineCalls == 3

\* The tile rows the calls are made with: one across the sphere, one where
\* the ground begins.
EngineRows == {5, 7}

InitEngine ==
    /\ EngineStatic
    /\ pc = "fn"
    /\ view_id = VIEW_FRONT
    /\ py_loop = 0
    /\ current_view = VIEW_FRONT
    /\ last_keys = {}
    /\ title_keys = {}
    /\ arg = [fn |-> "engine", calls |-> 0, op |-> "none", v |-> VIEW_FRONT,
              row |-> 0]
    /\ ret = NoRet

\* One more call, of op with the arguments v and row.
EngineCall(op, v, row) ==
    /\ pc = "fn_ready"
    /\ arg.fn = "engine"
    /\ arg.calls < MaxEngineCalls
    /\ arg' = [fn |-> "engine", calls |-> arg.calls + 1, op |-> op,
               v |-> v, row |-> row]
    /\ UNCHANGED <<mainVars, ret>>

EngineSetView ==
    \E v \in Views :
        /\ EngineCall("set_view", v, 0)
        /\ raytracer_set_view(v)

EngineRenderRow ==
    \E tile_row \in EngineRows :
        /\ EngineCall("render_row", VIEW_FRONT, tile_row)
        /\ raytracer_render_row(tile_row)

EngineStoreRow ==
    \E v \in Views, tile_row \in EngineRows :
        /\ EngineCall("store_row", v, tile_row)
        /\ raytracer_store_row(v, tile_row)

EngineLoadScene ==
    \E v \in Views :
        /\ EngineCall("load_scene", v, 0)
        /\ raytracer_load_scene(v)

NextEngine ==
    \/ FnEngineInit
    \/ EngineSetView
    \/ EngineRenderRow
    \/ EngineStoreRow
    \/ EngineLoadScene

SpecEngine == InitEngine /\ [][NextEngine]_vars

\* Bit n of the byte b.
BitOf(b, n) == (b \div (2 ^ n)) % 2

\* The colour index of column col of row `row` of a tile, read back from its
\* 16 bytes: the low plane in byte 2*row, the high plane in byte 2*row+1,
\* column col at bit 7-col.
UnpackTile(bytes, row, col) ==
    BitOf(bytes[2 * row], 7 - col) + 2 * BitOf(bytes[2 * row + 1], 7 - col)

\* The colour index of pixel (x, y) of view v, read back from scene_buffer.
StoredPixel(v, x, y) ==
    LET base == (y \div 8) * TILE_ROW_BYTES + (x \div 8) * 16
        tile == [k \in 0 .. 15 |-> scene_buffer[v][base + k]]
    IN  UnpackTile(tile, y % 8, x % 8)

\* Tile row r of view v has been stored: the store starts zeroed, and every
\* tile row of this scene has a byte that is not 0.
RowStored(v, r) ==
    \E k \in (r * TILE_ROW_BYTES) .. (r * TILE_ROW_BYTES + TILE_ROW_BYTES - 1) :
        scene_buffer[v][k] # 0
ViewStored(v) == \A r \in TileRows : RowStored(v, r)

\* The lifecycle state of the program, from what has been built and stored.
Lifecycle ==
    IF oc_dot_d_constant = 0 THEN "Uninitialized"
    ELSE IF ~ViewStored(VIEW_FRONT) THEN "TablesBuilt"
    ELSE IF ~ViewStored(VIEW_BACK) THEN "ViewARendered"
    ELSE "Ready"

\* The two pixels (x, y) of VIEW_FRONT whose mirror pixel of VIEW_BACK has
\* another colour.
MirrorExceptions == {<<51, 40>>, <<52, 73>>}

C8_PackRoundTrip ==
    (ret.done /\ arg.fn = "tile_data") =>
        /\ DOMAIN ret.val = 0 .. 15
        /\ \A k \in 0 .. 15 : ret.val[k] \in 0 .. 255
        /\ \A row \in 0 .. 7 : \A col \in 0 .. 7 :
              UnpackTile(ret.val, row, col) = arg.block[row][col]

\* C8 witness: a packed block with the four colours in its first row, and
\* the two bytes of that row.
C8_Witness ==
    /\ ret.done
    /\ arg.fn = "tile_data"
    /\ arg.block[0] = [col \in 0 .. 7 |-> col % 4]
    /\ ret.val[0] = 85
    /\ ret.val[1] = 51

\* C9: after the second of two raytracer_set_view(v) in a row, the light
\* signs, the shadow centre and the per-scanline tables are what the first
\* call left; and what the first call left is the same after every sequence
\* of earlier calls: it is what set_view gives for v from the dy table of
\* raytracer_init.
C9_SetViewIdempotent ==
    (arg.fn = "set_view" /\ ret.done) =>
        /\ ret.val = set_view(arg.v, init_dy_fp_array)
        /\ ret.val.light_dir_x = (IF arg.v = VIEW_FRONT THEN -1 ELSE 1)
        /\ pc = "fn_again" => cur_view = ret.val

\* C9 witness: raytracer_set_view(VIEW_BACK) has run twice in a row; it
\* left the view state of BACK, with rows that hit the ground.
C9_Witness ==
    /\ arg.fn = "set_view"
    /\ pc = "fn_again"
    /\ arg.v = VIEW_BACK
    /\ light_dir_x = 1
    /\ shadow_center_x_const = 366
    /\ scanline_hit_ground[62] = 1
    /\ scanline_shadow_dz_sq[62] # 0

\* C10 as stated: raytracer_set_view is invoked only in Ready.
C10_SetViewOnlyInReady ==
    [][RenderViewBegin => Lifecycle = "Ready"]_vars

\* C10 amended: raytracer_set_view is invoked only at the start of
\* render_view: for VIEW_FRONT in TablesBuilt and for VIEW_BACK in
\* ViewARendered; never in Uninitialized or Ready, where no step changes
\* the view state or the per-scanline shadow table.
C10_SetViewBeforeEachRender ==
    [][/\ RenderViewBegin =>
             \/ (Lifecycle = "TablesBuilt" /\ view_id = VIEW_FRONT)
             \/ (Lifecycle = "ViewARendered" /\ view_id = VIEW_BACK)
       /\ Lifecycle \in {"Uninitialized", "Ready"} =>
             UNCHANGED <<viewVars, scanline_shadow_dz_sq>>]_vars

\* C10 witness: raytracer_set_view(VIEW_BACK) has just run in ViewARendered.
C10_Witness ==
    /\ pc = "scanline"
    /\ py_loop = 0
    /\ view_id = VIEW_BACK
    /\ light_dir_x = 1
    /\ Lifecycle = "ViewARendered"

\* raytracer_init has completed: the startup tables hold what it builds.
TablesBuilt ==
    /\ oc_dot_d_constant = init_oc_dot_d
    /\ lut_t_hit = init_lut_t_hit(init_oc_dot_d)
    /\ shadow_brightness_lut = init_shadow_lut
    /\ dx_fp_array = init_dx_fp_array
    /\ dy_fp_array = init_dy_fp_array
    /\ scanline_dy_fp = init_dy_fp_array

\* The tile rows of view v stored so far are the rows below r.
StoredBelow(v, r) == \A k \in TileRows : RowStored(v, k) <=> k < r

\* C11: raytracer_init has completed before every raytracer_set_view,
\* render and store step; before each scanline of a view the rows of that
\* view stored so far are the rows above the scanline's tile row, so the
\* rows are stored in increasing order; before each scanline of VIEW_FRONT
\* no row of VIEW_BACK is stored and before each scanline of VIEW_BACK all
\* 12 rows of VIEW_FRONT are; and all 12 rows of both views are stored
\* before every raytracer_load_scene.
C11_PhaseOrder ==
    [][/\ (RenderViewBegin \/ RenderScanline) => TablesBuilt
       /\ RenderScanline =>
             /\ StoredBelow(view_id, py_loop \div 8)
             /\ StoredBelow(view_id, py_loop \div 8)'
             /\ view_id = VIEW_FRONT => StoredBelow(VIEW_BACK, 0)
             /\ view_id = VIEW_BACK => ViewStored(VIEW_FRONT)
       /\ (LoadFront \/ (MainLoop /\ current_view' # current_view)) =>
             ViewStored(VIEW_FRONT) /\ ViewStored(VIEW_BACK)]_vars

\* C11 witness: VIEW_BACK is being rendered with its first tile row stored
\* and the second not, after all 12 rows of VIEW_FRONT were stored.
C11_Witness ==
    /\ pc = "scanline"
    /\ view_id = VIEW_BACK
    /\ py_loop = 8
    /\ TablesBuilt
    /\ ViewStored(VIEW_FRONT)
    /\ RowStored(VIEW_BACK, 0)
    /\ ~RowStored(VIEW_BACK, 1)

\* The bytes of scene_buffer outside the slot of tile row r of view v.
OtherSlots(v, r) ==
    {<<w, k>> \in Views \X (0 .. (SCENE_SIZE - 1)) :
        ~(w = v /\ k \div TILE_ROW_BYTES = r)}

\* C12: once both views are rendered (from the first raytracer_load_scene
\* on) every step leaves scene_buffer, tile_row_buffer, the view state and
\* every table as they are, and stays in the main loop, where a view change
\* is a raytracer_load_scene only; and over the whole run scene_buffer
\* changes only by a store into a slot (view, tile row) that was never
\* written before, which leaves every other slot as it is: with all 24
\* slots stored at the end, each is written exactly once.
C12_StoreImmutableOnceRendered ==
    [][/\ pc \in {"load_front", "main_loop"} =>
             /\ UNCHANGED engineVars
             /\ pc' = "main_loop"
             /\ ViewStored(VIEW_FRONT) /\ ViewStored(VIEW_BACK)
             /\ current_view' # current_view =>
                   /\ MainLoop
                   /\ raytracer_load_scene(current_view')
       /\ scene_buffer' # scene_buffer =>
             /\ RenderScanline
             /\ BitAnd7(py_loop) = 7
             /\ ~RowStored(view_id, py_loop \div 8)
             /\ \A s \in OtherSlots(view_id, py_loop \div 8) :
                   scene_buffer'[s[1]][s[2]] = scene_buffer[s[1]][s[2]]
             /\ \A k \in 0 .. (TILE_ROW_BYTES - 1) :
                   scene_buffer'[view_id][(py_loop \div 8) * TILE_ROW_BYTES + k]
                       = tile_row_buffer'[k]]_vars

\* C12 witness: in the main loop the view was switched to VIEW_BACK by UP,
\* with both views stored and the view state still that of the last render.
C12_Witness ==
    /\ pc = "main_loop"
    /\ current_view = VIEW_BACK
    /\ "J_UP" \in last_keys
    /\ ViewStored(VIEW_FRONT)
    /\ ViewStored(VIEW_BACK)
    /\ cur_view = set_view(VIEW_BACK, dy_fp_array)

\* Every table access of trace_ray(px, py) under the view state V is inside
\* the table.
IndexesInRange(V, px, py) ==
    /\ px \in DOMAIN dx_fp_array \cap DOMAIN dx_sq_array
    /\ px < RENDER_WIDTH
    /\ py \in DOMAIN dy_fp_array \cap DOMAIN dy_sq_array
    /\ py \in DOMAIN V.scanline_hit_ground \cap DOMAIN V.scanline_t_ground
    /\ py \in DOMAIN V.scanline_shadow_dz_sq
    /\ py < RENDER_HEIGHT
    /\ LET lut_index == lut_index_of(ray_d_dot_d(px, py))
       IN  /\ lut_index \in 0 .. 63
           /\ lut_index \in DOMAIN lut_t_hit \cap DOMAIN lut_proj_sq
    /\ branch_of(V, px, py) = "ground" =>
          LET lut_idx == shadow_lut_idx(shadow_dist_sq_of(V, px, py))
          IN  /\ lut_idx \in 0 .. 127
              /\ lut_idx \in DOMAIN shadow_brightness_lut

\* C13: after raytracer_init and raytracer_set_view(v), for both views,
\* every table access of trace_ray is in range for every pixel of the
\* scanline being rendered (all 96 scanlines are); and at the start of each
\* tile row, raytracer_render_row of that row passes only pixels with
\* px, py < 96, all of them in range, and writes only offsets 0..191 of
\* tile_row_buffer.
C13_TableIndexesInRange ==
    TracingRow =>
        /\ \A px \in Cols : IndexesInRange(cur_view, px, py_loop)
        /\ BitAnd7(py_loop) = 0 =>
              LET tile_row == py_loop \div 8
              IN  /\ tile_row \in 0 .. 11
                  /\ render_row_pixels(tile_row) \subseteq Cols \X Rows
                  /\ \A p \in render_row_pixels(tile_row) :
                        IndexesInRange(cur_view, p[1], p[2])
                  /\ render_row_offsets(tile_row) \subseteq 0 .. 191
                  /\ render_row_offsets(tile_row)
                        \subseteq DOMAIN tile_row_buffer
                  /\ DOMAIN render_row(cur_view, tile_row)
                        = DOMAIN tile_row_buffer

\* C13 witness: the first ground scanline of VIEW_FRONT, where the pixel
\* (0, 62) has shadow_dist_sq 9461, far beyond the last entry of the table,
\* and reads entry 127; the sphere lookup of the centre pixel reads entry 0.
C13_Witness ==
    /\ TracingRow
    /\ view_id = VIEW_FRONT
    /\ py_loop = 62
    /\ branch_of(cur_view, 0, 62) = "ground"
    /\ shadow_dist_sq_of(cur_view, 0, 62) = 9461
    /\ shadow_lut_idx(shadow_dist_sq_of(cur_view, 0, 62)) = 127
    /\ lut_index_of(ray_d_dot_d(48, 48)) = 0
    /\ lut_index_of(ray_d_dot_d(0, 0)) = 56

\* The ray of row py goes down steeply enough and its exact quotient
\* ((-CAM_Y) << 16) / dy_fp lies in the window.
GroundQuotient(py) == CDiv((-CAM_Y) * 65536, dy_fp_array[py])
GroundInWindow(py) ==
    /\ dy_fp_array[py] < -16
    /\ GroundQuotient(py) > 16
    /\ GroundQuotient(py) < 2000

\* C14: once raytracer_init has run, for every row py: the hit flag is 1
\* exactly if dy_fp_array[py] < -16 and the exact quotient is in the window
\* 16 < t_ground < 2000, and then scanline_t_ground and scanline_ground_z
\* hold the quotient; every other row has flag, t_ground, ground_z and
\* scanline_shadow_dz_sq all 0.
C14_GroundWindow ==
    TablesBuilt =>
        \A py \in Rows :
            /\ scanline_hit_ground[py] \in {0, 1}
            /\ scanline_hit_ground[py] = 1 <=> GroundInWindow(py)
            /\ IF GroundInWindow(py)
               THEN /\ scanline_t_ground[py] = GroundQuotient(py)
                    /\ scanline_ground_z[py] = GroundQuotient(py)
               ELSE /\ scanline_t_ground[py] = 0
                    /\ scanline_ground_z[py] = 0
                    /\ scanline_shadow_dz_sq[py] = 0

\* C14 witness: after raytracer_set_view, row 62 hits the ground at 1872;
\* row 61 goes down (dy -65) but its quotient 2016 is beyond the cutoff,
\* and the horizontal row 48 is a miss.
C14_Witness ==
    /\ pc = "scanline"
    /\ TablesBuilt
    /\ scanline_hit_ground[62] = 1
    /\ scanline_t_ground[62] = 1872
    /\ scanline_ground_z[62] = 1872
    /\ scanline_shadow_dz_sq[62] # 0
    /\ dy_fp_array[61] = -65
    /\ GroundQuotient(61) = 2016
    /\ scanline_hit_ground[61] = 0
    /\ dy_fp_array[48] = 0
    /\ scanline_hit_ground[48] = 0

\* C15: for every pixel of the scanline being rendered that is shaded as
\* sphere, in both views: 50 + ((dot * 205) >> 8) (50 when dot <= 0) fits
\* int16, so the brightness is that value or 255 if it is larger, and the
\* value cast to uint8_t is the brightness itself, in 50..255.
C15_SphereBrightnessSaturates ==
    TracingRow =>
        \A px \in Cols :
            branch_of(cur_view, px, py_loop) = "sphere" =>
                LET t_hit == pixel_t_hit(px, py_loop)
                    wide == sphere_lit_wide(
                                sphere_dot(cur_view, px, py_loop, t_hit))
                    brightness ==
                        sphere_brightness(cur_view, px, py_loop, t_hit)
                IN  /\ wide \in -32768 .. 32767
                    /\ wide >= 50
                    /\ brightness = (IF wide > 255 THEN 255 ELSE wide)
                    /\ ToUint8(brightness) = brightness
                    /\ ToUint8(brightness) \in 50 .. 255

\* C15 witness: row 40 of VIEW_FRONT: the pixel (32, 40) faces away from
\* the light (dot -71) and gets the ambient 50; (51, 40) has dot 98 and
\* brightness 128.
C15_Witness ==
    /\ TracingRow
    /\ view_id = VIEW_FRONT
    /\ py_loop = 40
    /\ branch_of(cur_view, 32, 40) = "sphere"
    /\ sphere_dot(cur_view, 32, 40, pixel_t_hit(32, 40)) = -71
    /\ sphere_brightness(cur_view, 32, 40, pixel_t_hit(32, 40)) = 50
    /\ sphere_dot(cur_view, 51, 40, pixel_t_hit(51, 40)) = 98
    /\ sphere_brightness(cur_view, 51, 40, pixel_t_hit(51, 40)) = 128

\* The bytes of scene_buffer after raytracer_store_row(v, r), from the
\* state before it: tile_row_buffer in [r*192, r*192+192) of view v, and
\* what was there everywhere else.
SlotWritten(v, r) ==
    \A w \in Views : \A k \in 0 .. (SCENE_SIZE - 1) :
        scene_buffer'[w][k] =
            IF w = v /\ k >= r * 192 /\ k < r * 192 + 192
            THEN tile_row_buffer[k - r * 192]
            ELSE scene_buffer[w][k]

\* C16: in every sequence of engine calls after raytracer_init:
\* raytracer_set_view leaves the startup tables, tile_row_buffer and
\* scene_buffer unchanged; raytracer_render_row leaves everything but
\* tile_row_buffer unchanged; raytracer_store_row(view, r) makes bytes
\* [r*192, r*192+192) of scene_buffer[view] equal to tile_row_buffer and
\* leaves every other byte of scene_buffer, and every other variable,
\* unchanged; raytracer_load_scene leaves everything unchanged.
C16_OperationFrames ==
    [][/\ EngineSetView => UNCHANGED <<lutVars, tile_row_buffer, scene_buffer>>
       /\ EngineRenderRow =>
             UNCHANGED <<scene_buffer, viewVars, scanVars, lutVars>>
       /\ EngineStoreRow =>
             /\ UNCHANGED <<tile_row_buffer, viewVars, scanVars, lutVars>>
             /\ SlotWritten(arg'.v, arg'.row)
       /\ EngineLoadScene => UNCHANGED engineVars]_vars

\* C16 witness: after raytracer_set_view(VIEW_BACK) and
\* raytracer_render_row(7), raytracer_store_row(VIEW_BACK, 7) has filled
\* that slot with the row, and nothing else of the store.
C16_Witness ==
    /\ arg.fn = "engine"
    /\ arg.op = "store_row"
    /\ arg.v = VIEW_BACK
    /\ arg.row = 7
    /\ light_dir_x = 1
    /\ RowStored(VIEW_BACK, 7)
    /\ \A k \in 0 .. (TILE_ROW_BYTES - 1) :
          scene_buffer[VIEW_BACK][7 * TILE_ROW_BYTES + k] = tile_row_buffer[k]
    /\ \A r \in TileRows \ {7} : ~RowStored(VIEW_BACK, r)
    /\ ~(\E r \in TileRows : RowStored(VIEW_FRONT, r))
    /\ tile_row_buffer = render_row(cur_view, 7)

\* The other view.
OtherView(v) == IF v = VIEW_FRONT THEN VIEW_BACK ELSE VIEW_FRONT

=============================================================================
